---- MODULE Spec2Model ----
(***************************************************************************)
(* The io-uring buffer ring: src/src/buf_ring.rs (BufRing<State>, its      *)
(* mapping, the tail cursor and the descriptor array) and                  *)
(* src/src/buffer_id.rs (BufferId, the view resolved from a completion).   *)
(*                                                                         *)
(* The ring's memory is one anonymous mapping.  The model follows the      *)
(* mapping itself (map), the words of it the code reads and writes (tail,  *)
(* descs), the handle the caller holds (state, ring), the view borrowed    *)
(* from it (view) and the external consumer of the ring (engine, head).    *)
(***************************************************************************)
EXTENDS Integers, Sequences, FiniteSets, TLC

----------------------------------------------------------------------------
(* Program constants *)

U16_MAX == 65535
\* i32::MIN, written as a difference: TLC has no literal 2147483648
I32_MIN == -2147483647 - 1
\* core::mem::size_of::<BufRingEntry>(): addr u64, len u32, bid u16, resv u16
DescSize == 16
IORING_CQE_F_BUFFER == 1
IORING_CQE_BUFFER_SHIFT == 16
\* the address mmap returns for the ring (any page-aligned address)
MapAddr == 4096

(* Bounds of the model *)

\* largest entry count requested in the lifecycle specification
MaxReq == 2
\* largest buffer size requested in the lifecycle specification
MaxBufSize == 1
\* largest group id
MaxBgid == 1
\* successful registrations in one behaviour
MaxRegs == 2
\* views released after one init
MaxReleases == 2

----------------------------------------------------------------------------
(* Machine arithmetic *)

RECURSIVE BitAnd(_, _)
BitAnd(a, b) ==
    IF a = 0 \/ b = 0 THEN 0
    ELSE (a % 2) * (b % 2) + 2 * BitAnd(a \div 2, b \div 2)

RECURSIVE Pow2(_)
Pow2(k) == IF k = 0 THEN 1 ELSE 2 * Pow2(k - 1)

Shr(x, k) == x \div Pow2(k)

\* u16::is_power_of_two: exactly one bit set
is_power_of_two(n) == n > 0 /\ BitAnd(n, n - 1) = 0

\* u16::one_less_than_next_power_of_two: the mask of all bits up to the
\* highest bit of n - 1
RECURSIVE FillBits(_)
FillBits(p) == IF p = 0 THEN 0 ELSE 2 * FillBits(p \div 2) + 1

\* u16::next_power_of_two before the result is narrowed to 16 bits: the
\* value is 65536 (an overflow of u16) exactly when n > 32768
next_power_of_two(n) == IF n <= 1 THEN 1 ELSE FillBits(n - 1) + 1

(* Numbers of more than 31 bits (usize lengths, addresses, the product of
   get_buffer before it is narrowed) are kept as the pair of their low 16
   bits, lo, and the bits above them, hi: the number is hi * 2^16 + lo. *)

WideOf(n) == [hi |-> n \div (U16_MAX + 1), lo |-> n % (U16_MAX + 1)]
WideZero == WideOf(0)

WideAdd(a, b) ==
    [hi |-> a.hi + b.hi + (a.lo + b.lo) \div (U16_MAX + 1),
     lo |-> (a.lo + b.lo) % (U16_MAX + 1)]

\* k * n in full, for k < 2^16 and 0 <= n < 2^31: n is taken in three
\* pieces (the bits above 16, bits 8-15, bits 0-7) so that no partial
\* product leaves 31 bits
WideMul(k, n) ==
    LET A == k * (n \div (U16_MAX + 1))
        B == k * ((n % (U16_MAX + 1)) \div 256)
        C == k * (n % 256)
        M == (B % 256) * 256 + C
    IN [hi |-> A + B \div 256 + M \div (U16_MAX + 1), lo |-> M % (U16_MAX + 1)]

\* a product taken in u32: whether it overflows, and what it wraps to
overflows_u32(w) == w.hi > U16_MAX
wrapping_u32(w) == [hi |-> w.hi % (U16_MAX + 1), lo |-> w.lo]

----------------------------------------------------------------------------
VARIABLES
    checks,     \* the build: TRUE with overflow checks (debug), FALSE without
    proc,       \* "run", or how the process stopped: "panic", "fault"
    state,      \* the handle: "None", "Uninit", "Registered", "Init", "Dropped"
    ring,       \* the fields of BufRing
    pc,         \* "idle", or "init" while init's loop runs
    idx,        \* init's loop variable i
    map,        \* the region at ring.base: "none", "mapped", "released", "foreign"
    map_args,   \* the length and flags of the mmap call
    mmaps,      \* mmap calls made
    munmaps,    \* munmap calls made on the region
    tail,       \* the 16-bit tail cursor word of the region
    descs,      \* the descriptor slots of the region that are not all-zero
    engine,     \* the registration the engine holds
    head,       \* the consumer's head, 0 at registration
    out,        \* buffer ids the consumer took and no release returned
    view,       \* the BufferId alive, borrowing the ring
    slice,      \* what BufferId::buffer returned, borrowed from the view
    ret,        \* what the last call returned
    req,        \* the entry count, size, options and grant of new_with_opts
    cqe,        \* the completion record of the last BufferId::new call
    released,   \* views released since init
    tail0,      \* the tail as init left it
    regs,       \* successful registrations
    advanced    \* calls of the public advance since init

handle == <<state, ring, pc, idx>>
region == <<map, map_args, mmaps, munmaps>>
words == <<tail, descs>>
consumer == <<engine, head, out>>
borrow == <<view, slice>>
counts == <<released, tail0, regs, advanced>>

vars == <<checks, proc, handle, region, words, consumer, borrow, ret, req, cqe,
          counts>>

NoRing == [base |-> 0, entries |-> 0, buf_size |-> 0, mask |-> 0, bgid |-> 0,
           buffer_base |-> 0]
NoArgs == [len |-> WideZero, flags |-> {}]
NoEngine == [registered |-> FALSE, addr |-> 0, entries |-> 0, bgid |-> 0]
NoView == [some |-> FALSE, buf_id |-> 0, cqe_res |-> 0]
NoSlice == [some |-> FALSE, addr |-> WideZero, len |-> 0]
NoRet == [op |-> "none", kind |-> "none", code |-> 0]
NoCqe == [flags |-> [hi |-> 0, lo |-> 0], res |-> 0]
ZeroDesc == [addr |-> WideZero, len |-> 0, bid |-> 0]
NoDescs == [s \in {} |-> ZeroDesc]

\* MapOpts
MapOptsAll == [privacy : {"Private", "Shared"}, populate : BOOLEAN]
MapOptsDefault == [privacy |-> "Private", populate |-> FALSE]
NoReq == [n |-> 0, size |-> 0, opts |-> MapOptsDefault, granted |-> FALSE]

Init ==
    /\ checks \in BOOLEAN
    /\ proc = "run"
    /\ state = "None"
    /\ ring = NoRing
    /\ pc = "idle"
    /\ idx = 0
    /\ map = "none"
    /\ map_args = NoArgs
    /\ mmaps = 0
    /\ munmaps = 0
    /\ tail = 0
    /\ descs = NoDescs
    /\ engine = NoEngine
    /\ head = 0
    /\ out = {}
    /\ view = NoView
    /\ slice = NoSlice
    /\ ret = NoRet
    /\ req = NoReq
    /\ cqe = NoCqe
    /\ released = 0
    /\ tail0 = 0
    /\ regs = 0
    /\ advanced = 0

----------------------------------------------------------------------------
(* Accessors of BufRing<S> *)

entries == ring.entries % (U16_MAX + 1)
ring_addr == ring.base
bgid == ring.bgid

\* the slot as the region holds it: a fresh anonymous mapping is zero-filled
DescAt(s) == IF s \in DOMAIN descs THEN descs[s] ELSE ZeroDesc

\* the borrow forgotten: the ring stays usable beside its view
Borrowed_never == FALSE

\* a BufferId holds the &mut borrow of the ring: while it lives the ring
\* can be neither used nor moved
Borrowed == view.some

\* The process stops inside the call op: a panic, or a fault on an address
\* that no mapping backs.
Stop(how, op) ==
    /\ proc' = how
    /\ ret' = [op |-> op, kind |-> how, code |-> 0]
    /\ UNCHANGED <<checks, handle, region, words, consumer, borrow, counts>>

\* impl Drop for BufRing<S>: munmap(self.base, size), whatever is mapped there
drop ==
    /\ munmaps' = munmaps + 1
    /\ map' = IF map \in {"mapped", "foreign"} THEN "released" ELSE map

----------------------------------------------------------------------------
(* BufRing<Uninit>::new_with_opts *)

\* the test with the sentinel forgotten
Rejected_zero_only(n) == n = 0

Rejected(n) == n = 0 \/ n = U16_MAX

\* entries after the rounding, before it is narrowed to u16
Rounded(n) == IF is_power_of_two(n) THEN n ELSE next_power_of_two(n)

map_flags(opts) ==
    {"MAP_ANONYMOUS"}
        \cup (IF opts.privacy = "Private" THEN {"MAP_PRIVATE"} ELSE {"MAP_SHARED"})
        \cup (IF opts.populate THEN {"MAP_POPULATE"} ELSE {})

\* entries as usize * (buf_size as usize + size_of::<BufRingEntry>())
buf_ring_size(e, size) == WideAdd(WideMul(e, size), WideOf(e * DescSize))

\* granted: whether the system grants a mapping of a length above 0; mmap of
\* length 0 fails with EINVAL.  A behaviour follows one call of it.
new_with_opts(n, size, g, opts, granted) ==
    /\ proc = "run"
    /\ state = "None"
    /\ ret.op = "none"
    /\ req' = [n |-> n, size |-> size, opts |-> opts, granted |-> granted]
    /\ cqe' = cqe
    /\ IF Rejected(n)
       THEN /\ ret' = [op |-> "new", kind |-> "InvalidInput", code |-> 0]
            /\ UNCHANGED <<checks, proc, handle, region, words, consumer,
                           borrow, counts>>
       ELSE IF Rounded(n) > U16_MAX /\ checks
       THEN Stop("panic", "new")
       ELSE LET e == Rounded(n) % (U16_MAX + 1)
                m == (e - 1) % (U16_MAX + 1)
                len == buf_ring_size(e, size)
            IN /\ mmaps' = mmaps + 1
               /\ map_args' = [len |-> len, flags |-> map_flags(opts)]
               /\ IF len = WideZero \/ ~granted
                  THEN /\ ret' = [op |-> "new", kind |-> "OsError", code |-> 0]
                       /\ UNCHANGED <<state, ring, map, tail, descs>>
                  ELSE /\ ret' = [op |-> "new", kind |-> "Ok", code |-> 0]
                       /\ state' = "Uninit"
                       /\ map' = "mapped"
                       /\ tail' = 0
                       /\ descs' = NoDescs
                       /\ ring' = [base |-> MapAddr, entries |-> e,
                                   buf_size |-> size, mask |-> m, bgid |-> g,
                                   buffer_base |-> MapAddr + e * DescSize]
               /\ UNCHANGED <<checks, proc, pc, idx, munmaps, consumer, borrow,
                              counts>>

\* set_bgid offered by every state of the handle
set_bgid_any_state(g) ==
    /\ proc = "run"
    /\ state \in {"Uninit", "Registered", "Init"}
    /\ ring' = [ring EXCEPT !.bgid = g]
    /\ ret' = [op |-> "set_bgid", kind |-> "Ok", code |-> 0]
    /\ UNCHANGED <<checks, proc, state, pc, idx, region, words, consumer,
                   borrow, req, cqe, counts>>

\* BufRing<Uninit>::set_bgid
set_bgid(g) ==
    /\ proc = "run"
    /\ state = "Uninit"
    /\ ring' = [ring EXCEPT !.bgid = g]
    /\ ret' = [op |-> "set_bgid", kind |-> "Ok", code |-> 0]
    /\ UNCHANGED <<checks, proc, state, pc, idx, region, words, consumer,
                   borrow, req, cqe, counts>>

\* the handle goes out of scope in the caller
DropRing ==
    /\ proc = "run"
    /\ state \in {"Uninit", "Registered", "Init"}
    /\ pc = "idle"
    /\ ~Borrowed
    /\ drop
    /\ state' = "Dropped"
    /\ ret' = [op |-> "drop", kind |-> "Ok", code |-> 0]
    /\ UNCHANGED <<checks, proc, ring, pc, idx, map_args, mmaps, words,
                   consumer, borrow, req, cqe, counts>>

----------------------------------------------------------------------------
(* The region after munmap *)

\* what a later mapping placed at the same address may hold in the tail word
ForeignTails == {0, U16_MAX}

\* A later mmap of the process (another ring, the allocator) is placed at the
\* released address: the words at ring.base are then that mapping's words.
Reuse ==
    /\ proc = "run"
    /\ map = "released"
    /\ state \in {"Registered", "Init"}
    /\ map' = "foreign"
    /\ tail' \in ForeignTails \cup {tail}
    /\ descs' \in {descs, NoDescs}
    /\ UNCHANGED <<checks, proc, handle, map_args, mmaps, munmaps, consumer,
                   borrow, ret, req, cqe, counts>>

\* an access to the words at ring.base reaches memory
Backed == map \in {"mapped", "foreign"}

----------------------------------------------------------------------------
(* BufRing<Uninit>::register *)

\* ok: whether the engine accepts register_buf_ring(ring_addr, entries, bgid)
register(ok) ==
    /\ proc = "run"
    /\ state = "Uninit"
    /\ regs < MaxRegs
    /\ IF ~ok
       THEN /\ ret' = [op |-> "register", kind |-> "Err", code |-> 0]
            /\ UNCHANGED <<checks, proc, handle, region, words, consumer,
                           borrow, req, cqe, counts>>
       ELSE /\ engine' = [registered |-> TRUE, addr |-> ring_addr,
                          entries |-> entries, bgid |-> bgid]
            /\ head' = 0
            /\ out' = {}
            /\ state' = "Registered"
            /\ regs' = regs + 1
            /\ ret' = [op |-> "register", kind |-> "Ok", code |-> 0]
            \* the fields are copied out of self, and self is dropped on return
            /\ drop
            /\ UNCHANGED <<checks, proc, ring, pc, idx, map_args, mmaps, words,
                           borrow, req, cqe, released, tail0, advanced>>

(* BufRing::unregister_, reached from Registered and from Init *)

\* ok: whether the engine accepts unregister_buf_ring(bgid); the code of
\* the result records the group id passed in the call
unregister_(ok) ==
    /\ proc = "run"
    /\ state \in {"Registered", "Init"}
    /\ pc = "idle"
    /\ ~Borrowed
    /\ IF ~ok
       THEN /\ ret' = [op |-> "unregister", kind |-> "Err", code |-> bgid]
            /\ UNCHANGED <<checks, proc, handle, region, words, consumer,
                           borrow, req, cqe, counts>>
       ELSE /\ engine' = NoEngine
            /\ out' = {}
            /\ state' = "Uninit"
            /\ ret' = [op |-> "unregister", kind |-> "Ok", code |-> bgid]
            \* the fields are copied out of self, and self is dropped on return
            /\ drop
            /\ UNCHANGED <<checks, proc, ring, pc, idx, map_args, mmaps, words,
                           head, borrow, req, cqe, counts>>

----------------------------------------------------------------------------
(* BufRing::get_buffer, BufRing::add, BufRing::advance_ *)

\* buf_id as u32 * self.buf_size: the product is taken in u32.  With
\* overflow checks a product of 2^32 or more panics; without, it wraps.
get_buffer_overflows(buf_id) ==
    overflows_u32(WideMul(buf_id, ring.buf_size))
get_buffer_offset(buf_id) == wrapping_u32(WideMul(buf_id, ring.buf_size))

\* self.buffer_base.offset(product as isize): an address
get_buffer(buf_id) == WideAdd(WideOf(ring.buffer_base), get_buffer_offset(buf_id))

\* the slot add writes, and the descriptor it writes there
add_offset(buf_offset) == BitAnd(tail + buf_offset, ring.mask)
add_entry(buf_id) ==
    [addr |-> get_buffer(buf_id), len |-> ring.buf_size, bid |-> buf_id]

add(buf_id, buf_offset) ==
    descs' = [s \in DOMAIN descs \cup {add_offset(buf_offset)} |->
                IF s = add_offset(buf_offset) THEN add_entry(buf_id)
                ELSE descs[s]]

\* the add without the wraparound of the 16-bit word
advance_unwrapped(count) == tail' = tail + count

\* AtomicU16::fetch_add(count)
advance_(count) == tail' = (tail + count) % (U16_MAX + 1)

----------------------------------------------------------------------------
(* BufRing<Registered>::init, step by step: the consumer runs beside it *)

init_begin ==
    /\ proc = "run"
    /\ state = "Registered"
    /\ pc = "idle"
    /\ pc' = "init"
    /\ idx' = 0
    /\ UNCHANGED <<checks, proc, state, ring, region, words, consumer, borrow,
                   ret, req, cqe, counts>>

\* one turn of the loop: self.add(i, i)
init_add ==
    /\ proc = "run"
    /\ pc = "init"
    /\ idx < entries
    /\ UNCHANGED <<req, cqe>>
    /\ IF ~Backed
       THEN Stop("fault", "init")
       ELSE IF checks /\ get_buffer_overflows(idx)
       THEN Stop("panic", "init")
       ELSE /\ add(idx, idx)
            /\ idx' = idx + 1
            /\ UNCHANGED <<checks, proc, state, ring, pc, region, tail,
                           consumer, borrow, ret, counts>>

\* after the loop: self.advance_(entries), and self is dropped on return
init_end ==
    /\ proc = "run"
    /\ pc = "init"
    /\ idx = entries
    /\ UNCHANGED <<req, cqe>>
    /\ IF ~Backed
       THEN Stop("fault", "init")
       ELSE /\ advance_(entries)
            /\ tail0' = tail'
            /\ released' = 0
            /\ advanced' = 0
            /\ state' = "Init"
            /\ pc' = "idle"
            /\ ret' = [op |-> "init", kind |-> "Ok", code |-> 0]
            /\ drop
            /\ UNCHANGED <<checks, proc, ring, idx, map_args, mmaps, descs,
                           consumer, borrow, regs>>

(* BufRing<Registered>::init as one step, for the runs without a consumer *)

\* the descriptors written by self.add(i, i) for i from lo to hi, a later
\* write over an earlier one
RECURSIVE init_adds(_, _)
init_adds(lo, hi) ==
    IF lo > hi THEN NoDescs
    ELSE IF lo = hi THEN (add_offset(lo) :> add_entry(lo))
    ELSE LET mid == (lo + hi) \div 2
         IN init_adds(mid + 1, hi) @@ init_adds(lo, mid)

\* the turns of the loop whose product overflows
init_overflows == {i \in 0 .. (entries - 1) : get_buffer_overflows(i)}

init ==
    /\ proc = "run"
    /\ state = "Registered"
    /\ pc = "idle"
    /\ UNCHANGED <<req, cqe>>
    /\ IF ~Backed
       THEN Stop("fault", "init")
       ELSE IF checks /\ init_overflows # {}
       THEN \* the turns before the first overflow have written their slots
            /\ descs' = init_adds(0, (CHOOSE i \in init_overflows :
                                        \A j \in init_overflows : i <= j) - 1)
                            @@ descs
            /\ proc' = "panic"
            /\ ret' = [op |-> "init", kind |-> "panic", code |-> 0]
            /\ UNCHANGED <<checks, handle, region, tail, consumer, borrow,
                           counts>>
       ELSE /\ descs' = init_adds(0, entries - 1) @@ descs
            /\ advance_(entries)
            /\ tail0' = tail'
            /\ released' = 0
            /\ advanced' = 0
            /\ state' = "Init"
            /\ ret' = [op |-> "init", kind |-> "Ok", code |-> 0]
            /\ drop
            /\ UNCHANGED <<checks, proc, ring, pc, idx, map_args, mmaps,
                           consumer, borrow, regs>>

----------------------------------------------------------------------------
(* BufferId::new *)

\* the test without the mask: any bit of the word counts as the flag
flags_and_unmasked(f, c) == f.hi + f.lo

\* flags() is a 32-bit word, kept as its two 16-bit halves
flags_and(f, c) ==
    BitAnd(f.hi, c \div (U16_MAX + 1)) * (U16_MAX + 1)
        + BitAnd(f.lo, c % (U16_MAX + 1))
flags_shr(f, k) == Shr(f.hi, k - 16)

\* -cqe_res in i32: i32::MIN has no negation, and without overflow checks
\* the negation wraps to i32::MIN
NegOverflows(r) == r = I32_MIN
\* the result code passed on without the negation
Neg_sign_kept(r) == r

Neg(r) == IF NegOverflows(r) THEN I32_MIN ELSE 0 - r

\* the other order: the attached flag first, the result only under it
NegativeFirst_flag_first(c) ==
    c.res < 0 /\ flags_and(c.flags, IORING_CQE_F_BUFFER) # 0

\* the test made first: if cqe_res < 0
NegativeFirst(c) == c.res < 0

BufferId_new(c) ==
    IF NegativeFirst(c)
    THEN IF NegOverflows(c.res) /\ checks
         THEN [kind |-> "panic", code |-> 0, buf_id |-> 0]
         ELSE [kind |-> "Err", code |-> Neg(c.res), buf_id |-> 0]
    ELSE IF flags_and(c.flags, IORING_CQE_F_BUFFER) = 0
    THEN [kind |-> "None", code |-> 0, buf_id |-> 0]
    ELSE [kind |-> "Some", code |-> 0,
          buf_id |-> flags_shr(c.flags, IORING_CQE_BUFFER_SHIFT) % (U16_MAX + 1)]

\* BufRing<Init>::buffer_id_from_cqe
buffer_id_from_cqe(c) ==
    /\ proc = "run"
    /\ state = "Init"
    /\ pc = "idle"
    /\ ~Borrowed
    /\ released < MaxReleases
    /\ cqe' = c
    /\ req' = req
    /\ LET r == BufferId_new(c)
       IN IF r.kind = "panic"
          THEN Stop("panic", "resolve")
          ELSE /\ ret' = [op |-> "resolve", kind |-> r.kind, code |-> r.code]
               /\ view' = IF r.kind = "Some"
                          THEN [some |-> TRUE, buf_id |-> r.buf_id,
                                cqe_res |-> c.res]
                          ELSE view
               /\ UNCHANGED <<checks, proc, handle, region, words, consumer,
                              slice, counts>>

(* BufferId::buffer: self.buf.buffer(self.buf_id)[..cqe_res] *)

\* BufRing<Init>::buffer: the slice of the whole buffer
buffer(buf_id) ==
    [some |-> TRUE, addr |-> get_buffer(buf_id), len |-> ring.buf_size]

\* the bound check of the range index [..end] on a slice of length len
IndexInBounds(end, len) == end <= len

BufferId_buffer ==
    /\ proc = "run"
    /\ view.some
    /\ UNCHANGED <<req, cqe>>
    /\ LET whole == buffer(view.buf_id)
       IN IF checks /\ get_buffer_overflows(view.buf_id)
          THEN Stop("panic", "buffer")
          ELSE IF ~IndexInBounds(view.cqe_res, whole.len)
          THEN Stop("panic", "buffer")
          ELSE /\ slice' = [whole EXCEPT !.len = view.cqe_res]
               /\ ret' = [op |-> "buffer", kind |-> "Ok", code |-> 0]
               /\ UNCHANGED <<checks, proc, handle, region, words, consumer,
                              view, counts>>

(* impl Drop for BufferId: self.buf.advance(1) *)

BufferId_drop ==
    /\ proc = "run"
    /\ view.some
    /\ UNCHANGED <<req, cqe>>
    /\ IF ~Backed
       THEN Stop("fault", "release")
       ELSE /\ advance_(1)
            /\ view' = NoView
            \* the slice borrowed from the view ends with it
            /\ slice' = NoSlice
            /\ released' = released + 1
            /\ out' = out \ {view.buf_id}
            /\ ret' = [op |-> "release", kind |-> "Ok", code |-> 0]
            /\ UNCHANGED <<checks, proc, handle, region, descs, engine, head,
                           tail0, regs, advanced>>

----------------------------------------------------------------------------
(* The raw accessors of BufRing<Init> and the tail accessor of BufRing<S> *)

\* public advance calls after one init
MaxAdvances == 2

\* BufRing<Init>::advance(count): self.advance_(count), through &mut self
advance(count) ==
    /\ proc = "run"
    /\ state = "Init"
    /\ pc = "idle"
    /\ ~Borrowed
    /\ advanced < MaxAdvances
    /\ UNCHANGED <<req, cqe>>
    /\ IF ~Backed
       THEN Stop("fault", "advance")
       ELSE /\ advance_(count)
            /\ advanced' = advanced + 1
            /\ ret' = [op |-> "advance", kind |-> "Ok", code |-> count]
            /\ UNCHANGED <<checks, proc, handle, region, descs, consumer,
                           borrow, released, tail0, regs>>

\* BufRing<Init>::entry(offset): the address of a slot, nothing is read
entry(offset) ==
    /\ proc = "run"
    /\ state = "Init"
    /\ pc = "idle"
    /\ ~Borrowed
    /\ ret' = [op |-> "entry", kind |-> "Ok",
               code |-> ring.base + offset * DescSize]
    /\ UNCHANGED <<checks, proc, handle, region, words, consumer, borrow,
                   req, cqe, counts>>

\* a call of BufRing<Init>::buffer(buf_id) by the owner: the slice is made
\* from the address and the length, nothing is read
buffer_bytes(buf_id) ==
    /\ proc = "run"
    /\ state = "Init"
    /\ pc = "idle"
    /\ ~Borrowed
    /\ UNCHANGED <<req, cqe>>
    /\ IF checks /\ get_buffer_overflows(buf_id)
       THEN Stop("panic", "buffer_bytes")
       ELSE /\ ret' = [op |-> "buffer_bytes", kind |-> "Ok",
                       code |-> buffer(buf_id).len]
            /\ UNCHANGED <<checks, proc, handle, region, words, consumer,
                           borrow, counts>>

\* BufRing<S>::tail(): reads the tail word, in every state of the handle
tail_read ==
    /\ proc = "run"
    /\ state \in {"Uninit", "Registered", "Init"}
    /\ pc = "idle"
    /\ ~Borrowed
    /\ UNCHANGED <<req, cqe>>
    /\ IF ~Backed
       THEN Stop("fault", "tail")
       ELSE /\ ret' = [op |-> "tail", kind |-> "Ok", code |-> tail]
            /\ UNCHANGED <<checks, proc, handle, region, words, consumer,
                           borrow, counts>>

----------------------------------------------------------------------------
(* The external consumer of the ring *)

\* takes in one registration
MaxTakes == 3

\* descriptors published and not consumed: positions head .. tail - 1
Pending == (tail - head) % (U16_MAX + 1)

\* The consumer takes the descriptor at its head and moves on; the id it read
\* is reported later in a completion record.
ConsumerTake ==
    /\ proc = "run"
    /\ engine.registered
    /\ Backed
    /\ Pending > 0
    /\ head < MaxTakes
    /\ out' = out \cup {DescAt(BitAnd(head, engine.entries - 1)).bid}
    /\ head' = (head + 1) % (U16_MAX + 1)
    /\ UNCHANGED <<checks, proc, handle, region, words, engine, borrow, ret,
                   req, cqe, counts>>

\* the completion records the engine may report: one with a buffer the
\* consumer took (k in bits 16-31, attached bit set), one without a buffer,
\* one with an error
Completions ==
    [flags : [hi : out, lo : {1}], res : 0 .. ring.buf_size]
        \cup [flags : [hi : {0}, lo : {0}], res : {0, -5}]

Resolve == \E c \in Completions : buffer_id_from_cqe(c)

----------------------------------------------------------------------------
(* The lifecycle of one ring beside its consumer *)

Create ==
    \E n \in 0 .. MaxReq, size \in 1 .. MaxBufSize, g \in 0 .. MaxBgid,
       opts \in {MapOptsDefault}, granted \in BOOLEAN :
        new_with_opts(n, size, g, opts, granted)

SetBgid == \E g \in 0 .. MaxBgid : set_bgid(g)
Register == \E ok \in BOOLEAN : register(ok)
Unregister == \E ok \in BOOLEAN : unregister_(ok)

Next ==
    \/ Create
    \/ SetBgid
    \/ Register
    \/ Unregister
    \/ init_begin
    \/ init_add
    \/ init_end
    \/ Reuse
    \/ ConsumerTake
    \/ Resolve
    \/ BufferId_buffer
    \/ BufferId_drop
    \/ DropRing

Spec == Init /\ [][Next]_vars

----------------------------------------------------------------------------
(* Creation alone, over the whole range of the entry count *)

CreateEntries == {0, 1, 2, 3, 4, 5, 255, 256, 257, 32767, 32768,
                  32769, 40000, 65534, 65535}
CreateSizes == {0, 1, 4096}

CreateAny ==
    \E n \in CreateEntries, size \in CreateSizes, g \in 0 .. MaxBgid,
       opts \in MapOptsAll, granted \in BOOLEAN :
        new_with_opts(n, size, g, opts, granted)

NextCreate ==
    \/ CreateAny
    \/ DropRing

SpecCreate == Init /\ [][NextCreate]_vars

----------------------------------------------------------------------------
(* Resolution of any completion record, whatever the engine would report *)

AnyCqes ==
    [flags : [hi : {0, 1, U16_MAX}, lo : {0, 1, 2, 3}],
     res : {I32_MIN, -5, -1, 0, 1, 2, 2147483647}]

CreateGranted ==
    \E n \in 1 .. MaxReq, size \in 1 .. MaxBufSize :
        new_with_opts(n, size, 0, MapOptsDefault, TRUE)

RegisterOk == register(TRUE)

ResolveAny == \E c \in AnyCqes : buffer_id_from_cqe(c)

NextResolve ==
    \/ CreateGranted
    \/ RegisterOk
    \/ init_begin
    \/ init_add
    \/ init_end
    \/ Reuse
    \/ ResolveAny
    \/ BufferId_buffer
    \/ BufferId_drop

SpecResolve == Init /\ [][NextResolve]_vars

----------------------------------------------------------------------------
(* Every public operation on one ring, the raw accessors included *)

AdvanceCounts == {1, 2}
\* one record with a buffer, one without, one with an error
OpsCqes ==
    {[flags |-> [hi |-> 1, lo |-> 1], res |-> 1],
     [flags |-> [hi |-> 1, lo |-> 0], res |-> 1],
     [flags |-> [hi |-> 0, lo |-> 1], res |-> -5]}

OpsEntries == {1, 2}
CreateOps ==
    \E n \in OpsEntries : new_with_opts(n, 1, 0, MapOptsDefault, TRUE)

Advance == \E count \in AdvanceCounts : advance(count)
Entry == \E offset \in 0 .. ring.mask : entry(offset)
BufferBytes == \E buf_id \in 0 .. ring.mask : buffer_bytes(buf_id)
ResolveOps == \E c \in OpsCqes : buffer_id_from_cqe(c)

NextOps ==
    \/ CreateOps
    \/ Register
    \/ Unregister
    \/ init_begin
    \/ init_add
    \/ init_end
    \/ Reuse
    \/ ResolveOps
    \/ BufferId_buffer
    \/ BufferId_drop
    \/ Advance
    \/ Entry
    \/ BufferBytes
    \/ tail_read
    \/ DropRing

\* no operation of this specification can overflow: one build is followed
InitOps == Init /\ ~checks

SpecOps == InitOps /\ [][NextOps]_vars

----------------------------------------------------------------------------
(* Rings of any buffer size: creation, init, and the views of each buffer *)

SizeEntries == {2, 4}
\* the last two make id * buf_size reach 2^32 within a ring of 4 entries
BufSizes == {1, 65536, 1431655766, 2147483647}
SizedCqes == [flags : [hi : 0 .. 3, lo : {1, 3}], res : {0, 1, 65536}]

CreateSized ==
    \E n \in SizeEntries, size \in BufSizes :
        new_with_opts(n, size, 0, MapOptsDefault, TRUE)

ResolveSized == \E c \in SizedCqes : buffer_id_from_cqe(c)

NextSizes ==
    \/ CreateSized
    \/ RegisterOk
    \/ init_begin
    \/ init_add
    \/ init_end
    \/ Reuse
    \/ ResolveSized
    \/ BufferId_buffer
    \/ BufferId_drop

SpecSizes == Init /\ [][NextSizes]_vars

----------------------------------------------------------------------------
(* Rings of every entry count, with the tail near its wraparound *)

\* every power of two a ring can have, and one count that is rounded
WrapEntries == {Pow2(k) : k \in 0 .. 15} \cup {3}
WrapCounts == {1, U16_MAX}
WrapCqes == {[flags |-> [hi |-> 0, lo |-> 1], res |-> 0]}

CreateWrap ==
    \E n \in WrapEntries : new_with_opts(n, 1, 0, MapOptsDefault, TRUE)

AdvanceWrap == \E count \in WrapCounts : advance(count)
ResolveWrap == \E c \in WrapCqes : buffer_id_from_cqe(c)

NextWrap ==
    \/ CreateWrap
    \/ RegisterOk
    \/ Reuse
    \/ init
    \/ AdvanceWrap
    \/ ResolveWrap
    \/ BufferId_drop

SpecWrap == InitOps /\ [][NextWrap]_vars

----------------------------------------------------------------------------
(* The transitions of one ring and its group id, without a consumer *)

CreateLife ==
    \E n \in 1 .. MaxReq, g \in 0 .. MaxBgid :
        new_with_opts(n, 1, g, MapOptsDefault, TRUE)

NextLife ==
    \/ CreateLife
    \/ SetBgid
    \/ Register
    \/ Unregister
    \/ init
    \/ Reuse
    \/ DropRing

SpecLife == InitOps /\ [][NextLife]_vars

----------------------------------------------------------------------------
(* The claims *)

Min(a, b) == IF a <= b THEN a ELSE b
Live == state \in {"Uninit", "Registered", "Init"}

\* C1: over the life of one ring the mapping is unmapped exactly once: not
\* while a handle is alive, and once, not twice, when the ring is destroyed.
C1_SingleUnmap ==
    /\ Live => munmaps = 0
    /\ state = "Dropped" => munmaps = 1

\* C2: the handle a transition returns owns a mapping that is still mapped:
\* the region is released only when no usable handle refers to it.
C2_HandleOwnsMapping == Live => map = "mapped"

\* the words of the region are the ones the ring's own code wrote since the
\* first registration (init from tail 0, then the releases), and the
\* consumer has not run past the tail
Intact ==
    /\ regs = 1
    /\ tail0 = entries
    /\ tail = (tail0 + released) % (U16_MAX + 1)
    /\ Pending <= entries
    /\ \A s \in 0 .. ring.mask : DescAt(s) = add_entry(s)

\* C3: the release of the view of buffer k leaves the descriptor of k
\* (address buffer_base + k * buf_size, length buf_size, id k) in slot
\* tail & mask and advances the tail by 1, so the slot it publishes names k.
\* Stated for the releases made on a region whose words are intact.
C3_ReleaseWritesDescriptor ==
    [][(Intact /\ view.some /\ ~view'.some /\ proc' = "run") =>
          /\ LET s == BitAnd(tail, ring.mask)
             IN (IF s \in DOMAIN descs' THEN descs'[s] ELSE ZeroDesc)
                    = add_entry(view.buf_id)
          /\ tail' = (tail + 1) % (U16_MAX + 1)]_vars

\* C4: on an initialized ring the tail is the tail init left plus the number
\* of views released, modulo 2^16: one advance of 1 per view, none otherwise.
C4_TailCountsReleases ==
    (state = "Init" /\ proc = "run") =>
        tail = (tail0 + released) % (U16_MAX + 1)

\* the ids named by the descriptors published and not yet consumed
PublishedIds ==
    {DescAt(BitAnd((head + j) % (U16_MAX + 1), ring.mask)).bid :
        j \in 0 .. (Min(Pending, entries) - 1)}

\* C5: while buffer k is checked out (taken by the consumer, its view not
\* yet released), no descriptor published and not yet consumed names k.
\* Stated for the states of a region whose words are intact.
C5_CheckedOutNotPublished ==
    (state = "Init" /\ engine.registered /\ proc = "run" /\ Backed /\ Intact) =>
        out \cap PublishedIds = {}

\* the powers of two up to 2^16, and the least of them that is >= n
PowersOfTwo == {Pow2(k) : k \in 0 .. 16}
NextPow2(n) ==
    CHOOSE p \in PowersOfTwo :
        p >= n /\ \A q \in PowersOfTwo : q >= n => p <= q

\* C6: for 0 < n < 65535 and a granted mapping, create succeeds, entries()
\* is n rounded up to a power of two, and mask = entries - 1.
C6_EntriesNormalized ==
    (ret.op = "new" /\ 0 < req.n /\ req.n < U16_MAX /\ req.granted) =>
        /\ ret.kind = "Ok"
        /\ state = "Uninit"
        /\ entries = NextPow2(req.n)
        /\ ring.mask = entries - 1

\* C7: create with entry count 0 or 65535 fails with InvalidInput, whatever
\* the size, group id and options, and no mapping is requested or left.
C7_RejectedInputs ==
    (ret.op = "new" /\ req.n \in {0, U16_MAX}) =>
        /\ ret.kind = "InvalidInput"
        /\ proc = "run"
        /\ state = "None"
        /\ mmaps = 0
        /\ map = "none"
        /\ map_args = NoArgs

C7_Witness ==
    /\ ret = [op |-> "new", kind |-> "InvalidInput", code |-> 0]
    /\ req.n = U16_MAX
    /\ req.size = 4096
    /\ req.opts = [privacy |-> "Shared", populate |-> TRUE]
    /\ mmaps = 0

\* C8: the view of a record with the attached flag and result r >= 0 has
\* min(r, buf_size) bytes: BufferId::buffer never fails and never gives more.
C8_LengthClamped ==
    ret.op = "buffer" =>
        /\ ret.kind = "Ok"
        /\ slice.some
        /\ slice.len = Min(view.cqe_res, ring.buf_size)

Attached == flags_and(cqe.flags, IORING_CQE_F_BUFFER) # 0

\* C10 as claimed: the attached flag is checked first: a record with the
\* flag unset and a negative result yields Ok(None), not an error.
C10_FlagFirst ==
    (ret.op = "resolve" /\ cqe.res < 0 /\ ~Attached) => ret.kind = "None"

\* C10 amended: the result is checked first: a record with the flag unset
\* and a negative result r does not yield Ok(None); it yields the error of
\* OS code -r (for r = i32::MIN the overflow of C9).
C10_ResultFirst ==
    (ret.op = "resolve" /\ cqe.res < 0 /\ ~Attached) =>
        /\ ret.kind \in {"Err", "panic"}
        /\ cqe.res # I32_MIN => (ret.kind = "Err" /\ ret.code = 0 - cqe.res)

C10_Witness ==
    /\ cqe = [flags |-> [hi |-> 0, lo |-> 2], res |-> -5]
    /\ ret = [op |-> "resolve", kind |-> "Err", code |-> 5]
    /\ state = "Init"

\* C11: for every completion record with bit 0 of the flags unset and a
\* result >= 0, whatever bits 16-31 and the result are, resolve returns
\* Ok(None): no view is made, no buffer is checked out, no descriptor is
\* written and the tail is not advanced.
C11_NoBufferPassesThrough ==
    [][(buffer_id_from_cqe(cqe') /\ cqe'.res >= 0 /\ cqe'.flags.lo % 2 = 0) =>
          /\ proc' = "run"
          /\ ret' = [op |-> "resolve", kind |-> "None", code |-> 0]
          /\ view' = NoView
          /\ slice' = NoSlice
          /\ tail' = tail
          /\ descs' = descs
          /\ out' = out
          /\ head' = head
          /\ released' = released]_vars

C11_Witness ==
    /\ cqe = [flags |-> [hi |-> U16_MAX, lo |-> 2], res |-> 2147483647]
    /\ ret = [op |-> "resolve", kind |-> "None", code |-> 0]
    /\ ~view.some
    /\ state = "Init"

\* C12: when the engine rejects register or unregister, the caller gets the
\* error and the same ring in the state it had: the fields, the descriptors
\* and the tail are unchanged, and the mapping is mapped and was not released.
C12_FailureReturnsRing ==
    [][(register(FALSE) \/ unregister_(FALSE)) =>
          /\ ret'.kind = "Err"
          /\ state' = state
          /\ ring' = ring
          /\ descs' = descs
          /\ tail' = tail
          /\ engine' = engine
          /\ munmaps' = munmaps
          /\ map' = "mapped"
          /\ munmaps' = 0]_vars

\* the lifecycle transitions of the table: from, to, by
Transitions ==
    {<<"None", "Uninit", "new">>,
     <<"Uninit", "Registered", "register">>,
     <<"Registered", "Init", "init">>,
     <<"Registered", "Uninit", "unregister">>,
     <<"Init", "Uninit", "unregister">>,
     <<"Uninit", "Dropped", "drop">>,
     <<"Registered", "Dropped", "drop">>,
     <<"Init", "Dropped", "drop">>}

\* the operations of an initialized ring and of its view
InitOnly == {"resolve", "buffer", "release", "advance", "entry", "buffer_bytes"}

\* C13: the state of the handle changes only by the transitions of the
\* table (Uninit -> Registered by register, Registered -> Init by init,
\* Registered -> Uninit and Init -> Uninit by unregister); init runs only on
\* a Registered ring, register only on an Uninit one, and resolving, reading
\* buffers and advancing the tail only on an Init one.
C13_StateGating ==
    [][/\ state' # state => <<state, state', ret'.op>> \in Transitions
       /\ (pc' # pc \/ idx' # idx) => state = "Registered"
       /\ (engine' # engine /\ engine'.registered) => state = "Uninit"
       /\ (\/ view' # view
           \/ slice' # slice
           \/ ret'.op \in InitOnly /\ ret' # ret
           \/ tail' # tail /\ map' = map /\ state' = state)
              => state = "Init" /\ state' = "Init"]_vars

C13_Witness ==
    /\ state = "Uninit"
    /\ regs = MaxRegs
    /\ ret.op = "unregister"
    /\ ret.kind = "Ok"
    /\ released > 0
    /\ advanced > 0

\* buffer_base + k * buf_size, the product in full
BufferAddr(k) ==
    WideAdd(WideOf(ring.buffer_base), WideMul(k, ring.buf_size))

\* C14: on an initialized ring, for every id k < entries and every result r
\* with 0 <= r <= buf_size, the record with the attached bit set and k in
\* bits 16-31 resolves to a view of buffer k whose bytes are the r bytes at
\* buffer_base + k * buf_size, whatever the other flag bits are.
C14_RoundTrip ==
    /\ (/\ ret.op = "resolve"
        /\ cqe.flags.lo % 2 = 1
        /\ cqe.res >= 0) =>
            /\ ret.kind = "Some"
            /\ view = [some |-> TRUE, buf_id |-> cqe.flags.hi,
                       cqe_res |-> cqe.res]
    /\ (/\ ret.op = "buffer"
        /\ view.buf_id < entries
        /\ view.cqe_res <= ring.buf_size) =>
            /\ ret.kind = "Ok"
            /\ slice = [some |-> TRUE, addr |-> BufferAddr(view.buf_id),
                        len |-> view.cqe_res]

\* the slots the consumer may read: positions head .. tail - 1
CoveredSlots ==
    {BitAnd((head + j) % (U16_MAX + 1), ring.mask) :
        j \in 0 .. (Min(Pending, entries) - 1)}

\* the slots the running init has still to write
UnwrittenSlots == {BitAnd(tail + i, ring.mask) : i \in idx .. (entries - 1)}

\* C15: init writes, for each id from 0 to entries - 1, the descriptor
\* (buffer_base + id * buf_size, buf_size, id) at slot (tail + id) & mask
\* and leaves the tail alone; after the last one it advances the tail by
\* entries in one step; and while init runs the tail never covers a slot
\* that init has not written yet.
C15_InitWritesThenPublishes ==
    [][/\ (pc = "init" /\ (idx' # idx \/ proc' # proc \/ pc' # pc)) =>
              proc' = "run"
       /\ (pc = "init" /\ idx' = idx + 1) =>
              /\ descs' = [s \in DOMAIN descs \cup {BitAnd(tail + idx, ring.mask)} |->
                              IF s = BitAnd(tail + idx, ring.mask)
                              THEN [addr |-> BufferAddr(idx),
                                    len |-> ring.buf_size, bid |-> idx]
                              ELSE descs[s]]
              /\ tail' = tail
       /\ (pc = "init" /\ pc' = "idle") =>
              /\ idx = entries
              /\ descs' = descs
              /\ tail' = (tail + entries) % (U16_MAX + 1)
       /\ (pc = "init" /\ engine.registered /\ Backed) =>
              CoveredSlots \cap UnwrittenSlots = {}]_vars

\* the tail word is as the ring's own code left it: what the last init
\* made it (0 before any init) plus one per view released since
TailKept == tail = (tail0 + released) % (U16_MAX + 1)

\* C16: while the ring is Uninit or Registered no buffer is published: the
\* tail holds the 0 of creation, and a consumer that starts at head 0 on
\* registration finds no descriptor available; also after Init ->
\* unregister -> register.  Stated for a tail word that is as the ring's
\* own code left it.
C16_NothingPublishedBeforeInit ==
    (state \in {"Uninit", "Registered"} /\ proc = "run" /\ Backed /\ TailKept) =>
        /\ tail = 0
        /\ engine.registered => Pending = 0

\* the id named at position head + j of the ring
PublishedAt(j) == DescAt(BitAnd((head + j) % (U16_MAX + 1), ring.mask)).bid

\* the tail and the descriptors are as the ring's own code left them: the
\* tail has not come from a wrapped foreign value, and after an init every
\* slot holds the descriptor init wrote
WordsKept ==
    /\ TailKept
    /\ tail >= tail0
    /\ state = "Init" => tail0 >= entries
    /\ tail0 # 0 => \A s \in 0 .. ring.mask : DescAt(s) = add_entry(s)

\* C17: while the ring is registered, the descriptors published and not
\* consumed, (tail - head) mod 2^16 of them with the head at 0 at each
\* registration, are at most entries, and no two of them name the same id;
\* over every sequence of transitions, takes, resolves and releases.
\* Stated for ring words that are as the ring's own code left them.
C17_PublishedBounded ==
    (engine.registered /\ proc = "run" /\ Backed /\ WordsKept) =>
        /\ Pending <= entries
        /\ \A i, j \in 0 .. (Min(Pending, entries) - 1) :
               i # j => PublishedAt(i) # PublishedAt(j)

\* the physical slot of publish number t
SlotOf(t) == BitAnd(t % (U16_MAX + 1), ring.mask)

\* the tail moves by count, modulo 2^16, and its slot moves by count
\* modulo entries
TailAdds(count) ==
    /\ tail' = (tail + count) % (U16_MAX + 1)
    /\ SlotOf(tail') = (SlotOf(tail) + count) % entries

\* C18: the ring's code changes the tail only by an add modulo 2^16: by
\* entries in init, by count in advance, by 1 in the release of a view; the
\* slot of publish number t is (t mod 2^16) & mask, and the slots stay
\* consecutive modulo entries across the wrap from 65535 to 0: init writes
\* id i at slot (slot of the tail + i) mod entries, and an add of count
\* moves the slot of the tail by count modulo entries.
C18_TailWraps ==
    [][/\ (init /\ proc' = "run") =>
              /\ TailAdds(entries)
              /\ \A i \in 0 .. (entries - 1) :
                     /\ add_offset(i) = (SlotOf(tail) + i) % entries
                     /\ descs'[(SlotOf(tail) + i) % entries] = add_entry(i)
       /\ \A count \in WrapCounts :
              (advance(count) /\ proc' = "run" /\ ret'.code = count) =>
                  TailAdds(count)
       /\ (BufferId_drop /\ proc' = "run") => TailAdds(1)
       /\ (ResolveWrap \/ RegisterOk) => tail' = tail]_vars

C18_Witness ==
    /\ state = "Init"
    /\ entries = 32768
    /\ tail0 = 32767
    /\ ret.op = "release"
    /\ tail = 32767
    /\ advanced = 2

WideLeq(a, b) == a.hi < b.hi \/ (a.hi = b.hi /\ a.lo <= b.lo)

\* the end of the mapping, and the end of the buffer at address a
MappingEnd == WideAdd(WideOf(ring.base), map_args.len)
BufferEnd(a) == WideAdd(a, WideOf(ring.buf_size))

\* C19: for every id < entries and every buffer size, the address put in a
\* descriptor and the address of a view is buffer_base + id * buf_size with
\* no wraparound, the 32-bit product included (no overflow stops init); so
\* the buffers lie after the descriptor array, inside the mapping of
\* entries * (buf_size + descriptor size) bytes, and no two of them overlap.
C19_BuffersDisjoint ==
    /\ ret.op = "init" => ret.kind # "panic"
    /\ \A s \in DOMAIN descs :
           /\ descs[s].addr = BufferAddr(descs[s].bid)
           /\ WideLeq(WideOf(ring.buffer_base), descs[s].addr)
           /\ WideLeq(BufferEnd(descs[s].addr), MappingEnd)
    /\ \A s, t \in DOMAIN descs :
           descs[s].bid # descs[t].bid =>
               \/ WideLeq(BufferEnd(descs[s].addr), descs[t].addr)
               \/ WideLeq(BufferEnd(descs[t].addr), descs[s].addr)
    /\ (slice.some /\ view.buf_id < entries) =>
           slice.addr = BufferAddr(view.buf_id)

\* C20: unregister passes to the engine the group id that the register call
\* of the current registration passed; the group id changes only by
\* set_bgid, on an Uninit ring; register, init and unregister leave base,
\* entries, buf_size, mask, bgid and buffer_base as they are.
C20_GroupIdKept ==
    [][/\ (unregister_(TRUE) \/ unregister_(FALSE)) =>
              /\ engine.registered
              /\ ret'.code = engine.bgid
       /\ register(TRUE) =>
              engine' = [registered |-> TRUE, addr |-> ring.base,
                         entries |-> ring.entries, bgid |-> ring.bgid]
       /\ state # "None" =>
              /\ ring'.base = ring.base
              /\ ring'.entries = ring.entries
              /\ ring'.buf_size = ring.buf_size
              /\ ring'.mask = ring.mask
              /\ ring'.buffer_base = ring.buffer_base
       /\ ring'.bgid # ring.bgid =>
              state \in {"None", "Uninit"} /\ state' = "Uninit"
       /\ engine.registered => ring.bgid = engine.bgid]_vars

C20_Witness ==
    /\ ret = [op |-> "unregister", kind |-> "Ok", code |-> 1]
    /\ regs = 2
    /\ state = "Uninit"
    /\ ring.bgid = 1
    /\ req.n = 2

====
